---- MODULE Spec2Model ----
(***************************************************************************)
(* A model of openpnm.algorithms.GenericTransport                          *)
(* (src/openpnm/algorithms/_generic_transport.py): the boundary-condition  *)
(* store ('pore.bc_value' and 'pore.bc_rate'), and the assembly of the      *)
(* linear system A x = b from the throat conductances and the boundary     *)
(* conditions.                                                             *)
(*                                                                         *)
(* Numbers are exact rationals <<n, d>> in lowest terms with d > 0; the     *)
(* pair <<0, 0>> stands for numpy's NaN ("no boundary condition").          *)
(***************************************************************************)
EXTENDS Integers, Sequences, FiniteSets, TLC

\* ------------------------------------------------------------------ bounds

\* Number of pores of the network on which the boundary-condition calls are
\* explored (specification Spec).
NumPores == 3

\* Longest 'pores' argument (and longest value array) given to a BC call.
MaxTargets == 2

\* Number of pores, and largest number of throats, of the networks on which
\* the assembly of A and b is explored (specification SpecAsm).
NetPores == 3
MaxThroats == 3

\* The longest list settings['variable_props'] is followed to.
MaxProps == 3

\* -------------------------------------------------------------- rationals

Abs(n) == IF n < 0 THEN -n ELSE n

RECURSIVE GCD(_, _)
GCD(a, b) == IF b = 0 THEN a ELSE GCD(b, a % b)

\* The rational n/d (d # 0) in lowest terms, with a positive denominator.
Rat(n, d) ==
    LET g == GCD(Abs(n), Abs(d))
        s == IF d < 0 THEN -1 ELSE 1
    IN  <<(s * n) \div g, (s * d) \div g>>

NaN == <<0, 0>>
Zero == <<0, 1>>

\* np.isfinite on one entry
IsFinite(v) == v[2] # 0

\* Sums and products; of whole numbers directly.
RAdd(x, y) ==
    IF x[2] = 1 /\ y[2] = 1 THEN <<x[1] + y[1], 1>>
    ELSE IF x[2] = 0 \/ y[2] = 0 THEN NaN
    ELSE Rat(x[1] * y[2] + y[1] * x[2], x[2] * y[2])
RNeg(x) == <<-x[1], x[2]>>
RSub(x, y) == RAdd(x, RNeg(y))
RMul(x, y) ==
    IF x[2] = 1 /\ y[2] = 1 THEN <<x[1] * y[1], 1>>
    ELSE IF x[2] = 0 \/ y[2] = 0 THEN NaN
    ELSE Rat(x[1] * y[1], x[2] * y[2])

\* ------------------------------------------------------- sequences / sets

Range(s) == {s[i] : i \in DOMAIN s}

RECURSIVE SortedSeq(_)
\* The elements of a finite set of integers, in increasing order.
SortedSeq(S) ==
    IF S = {} THEN << >>
    ELSE LET m == CHOOSE x \in S : \A y \in S : x <= y
         IN  <<m>> \o SortedSeq(S \ {m})

\* np.setdiff1d(pores, inds): the sorted, unique entries of pores that are
\* not in inds.
SetDiff1d(pores, inds) == SortedSeq(Range(pores) \ Range(inds))

\* ---------------------------------------------------------------- network

VARIABLES
    Np,         \* self.Np: the number of pores; the pores are 0 .. Np-1
    conns,      \* network['throat.conns']: one pair <<i, j>>, i < j, per throat
    g           \* phase[settings['conductance']]: one conductance per throat

\* self.Ps
Pores == 0 .. (Np - 1)

\* ----------------------------------------------------------------- inputs

\* Finite numbers a caller passes as a BC value, a rate or a total rate.
BCNumbers == {Rat(1, 1), Rat(2, 1)}

\* A 'pores' argument: pore indices in increasing order (as net.pores()
\* returns them), or one pore given twice.
PoreSeqs ==
    {s \in UNION {[1 .. n -> Pores] : n \in 0 .. MaxTargets} :
        \A i \in 1 .. (Len(s) - 1) : s[i] < s[i + 1]}
    \cup {<<p, p>> : p \in Pores}

Scalar(v) == [shape |-> "scalar", v |-> <<v>>]
Array(s) == [shape |-> "array", v |-> s]
None == [shape |-> "none", v |-> << >>]

\* Value arrays: 1, 2, 1, ... and 2, 1, 2, ... of every length up to MaxTargets.
ValueArrays ==
    {[i \in 1 .. n |-> IF (i + k) % 2 = 0 THEN Rat(1, 1) ELSE Rat(2, 1)] :
        n \in 1 .. MaxTargets, k \in {0, 1}}

\* A 'values' / 'rates' argument: one scalar (NaN included), or an array.
ValueArgs ==
    {Scalar(v) : v \in BCNumbers \cup {NaN}} \cup {Array(s) : s \in ValueArrays}

\* np.array(bcvalues).size
Size(values) == Len(values.v)

\* The (values, mode) pairs of a set call: every value argument in the two
\* modes, and one call with a mode that does not exist.
ValueModeArgs ==
    (ValueArgs \X {"merge", "overwrite"}) \cup {<<Scalar(Rat(1, 1)), "clear">>}

\* An argument that was not given (Python's None).
IsNone(arg) == arg.shape = "none"

\* np.isscalar(total_rate)
IsScalar(arg) == arg.shape = "scalar"

\* A 'total_rate' argument: not given, a scalar, or (wrongly) an array.
TotalArgs == {None, Scalar(Rat(2, 1)), Array(<<Rat(1, 1), Rat(1, 1)>>)}

\* The (rates, total_rate) pairs of a set_rate_BC call.  A call that gives
\* neither is left out: it hands None to the store.
RateArgs ==
    {<<r, None>> : r \in ValueArgs}
    \cup {<<None, t>> : t \in TotalArgs \ {None}}
    \cup {<<Scalar(Rat(1, 1)), t>> : t \in TotalArgs \ {None}}

\* The (rates, total_rate, mode) triples of a set_rate_BC call.
RateModeArgs ==
    {<<a[1], a[2], m>> : a \in RateArgs, m \in {"merge", "overwrite"}}
    \cup {<<None, Scalar(Rat(2, 1)), "clear">>}

\* A 'bctype' argument of remove_BC, as the list the method makes of it.
BcTypeArgs == {<<"all">>, <<"value">>, <<"rate">>, <<"value", "rate">>}

\* ------------------------------------------------------------------ state

VARIABLES
    bc_value,   \* self['pore.bc_value']: [Pores -> number or NaN]
    bc_rate,    \* self['pore.bc_rate']:  [Pores -> number or NaN]
    A,          \* self._A: << >> (None) or <<matrix>>, matrix[i][j] over the pores
    b,          \* self._b: << >> (None) or <<vector>>
    pure_A,     \* self._pure_A: the cached matrix without boundary conditions
    pure_b,     \* self._pure_b
    cache,      \* settings['cache']
    asm,        \* what the last assembly step was, and A as it was when
                \* _apply_BCs last started
    solution,   \* self[settings['quantity']], the property x: << >> (absent)
                \* or <<vector>>
    initial_guess,  \* self['pore.initial_guess']
    settings,   \* settings['quantity'], ['conductance'], ['phase']: "None",
                \* "" (the default of the settings class) or "name";
                \* settings['variable_props']: a list of property names,
                \* each <<element, name>>
    ran,        \* the run that completed last, while nothing was changed
                \* since: its solver, its x0 and the solution it left
    last        \* the call that has just returned or raised: its arguments, the
                \* store before it, whether it raised ("no", "args": on checking
                \* its arguments, "store": on writing the values) and the pores
                \* its warning listed; NoCall between calls

bcvars == <<bc_value, bc_rate>>
sysvars == <<A, b, pure_A, pure_b, cache>>
solvars == <<solution, initial_guess, settings, ran>>
vars == <<Np, conns, g, bc_value, bc_rate, A, b, pure_A, pure_b, cache, asm,
          solution, initial_guess, settings, ran, last>>
netvars == <<Np, conns, g>>

\* self['pore.bc_...'] = np.nan : every entry NaN
AllNaN == [p \in Pores |-> NaN]

NoCall ==
    [op |-> "none", pores |-> << >>, values |-> None, total |-> None,
     mode |-> "merge", bctype |-> << >>, allpores |-> FALSE, bcs |-> FALSE,
     results |-> FALSE, raised |-> "no", skipped |-> << >>,
     pre_value |-> AllNaN, pre_rate |-> AllNaN,
     throats |-> << >>, solver |-> "none", x0 |-> << >>, solved |-> FALSE,
     exit_code |-> 0, returned |-> << >>, pre |-> << >>, steps |-> << >>,
     project |-> << >>, pair |-> 0, props |-> {}, objs |-> {},
     links |-> << >>, am |-> {},
     pre_ran |-> [solver |-> "none", x0 |-> << >>, x |-> << >>]]

\* __init__ has just returned
Constructed == [NoCall EXCEPT !.op = "__init__"]

\* ---------------------------------------------------------------- _set_BC

\* self._parse_mode(mode, allowed=[...], single=True) accepts the mode
ParseModeOK(mode, allowed) == mode \in allowed

\* self._parse_indices(pores): the indices as an integer array
ParseIndices(pores) == pores

\* values.size > 1 and values.size != pores.size
SizeMismatch(values, pores) == Size(values) > 1 /\ Size(values) # Len(pores)

\* (mutant) no pore is ever found to carry the other kind
ConflictsNeverFound(other, pores) == << >>

\* inds = pores[existing_bcs[pores]], existing_bcs = np.isfinite(other kind)
Conflicts(other, pores) == SelectSeq(pores, LAMBDA p : IsFinite(other[p]))

\* (mutant) overwrite does not clear the targeted kind
ClearedNever(own, mode) == own

\* The array of the targeted kind as the mode leaves it before the write.
ClearedByMode(own, mode) == IF mode = "overwrite" THEN AllNaN ELSE own

\* (mutant) the offending pores are reported but not dropped
KeptAll(pores, inds) == pores

\* if len(inds) > 0: pores = np.setdiff1d(pores, inds)
KeptPores(pores, inds) == IF Len(inds) > 0 THEN SetDiff1d(pores, inds) ELSE pores

\* numpy can broadcast the values to the indexed entries
CanStore(pores, values) == Size(values) = 1 \/ Size(values) = Len(pores)

\* arr[pores] = values: one value for all, or entry by entry (of a repeated
\* index the last assignment stays)
Store(arr, pores, values) ==
    [p \in Pores |->
        IF p \notin Range(pores) THEN arr[p]
        ELSE IF Size(values) = 1 THEN values.v[1]
        ELSE LET i == CHOOSE k \in DOMAIN pores :
                          /\ pores[k] = p
                          /\ \A j \in DOMAIN pores : pores[j] = p => j <= k
             IN  values.v[i]]

\* _set_BC(pores, bctype, bcvalues, mode) on the store (value, rate):
\* the store after the call, whether it raised, and the pores it warned about.
SetBC(value, rate, pores0, bctype, bcvalues, mode) ==
    LET own == IF bctype = "value" THEN value ELSE rate
        other == IF bctype = "value" THEN rate ELSE value
        pores == ParseIndices(pores0)
        Out(new, raised, skipped) ==
            [value |-> IF bctype = "value" THEN new ELSE value,
             rate |-> IF bctype = "rate" THEN new ELSE rate,
             raised |-> raised, skipped |-> skipped]
    IN  IF ~ParseModeOK(mode, {"merge", "overwrite"}) THEN Out(own, "args", << >>)
        ELSE IF SizeMismatch(bcvalues, pores) THEN Out(own, "args", << >>)
        ELSE LET cleared == ClearedByMode(own, mode)
                 inds == Conflicts(other, pores)
                 kept == KeptPores(pores, inds)
             IN  IF CanStore(kept, bcvalues)
                 THEN Out(Store(cleared, kept, bcvalues), "no", inds)
                 ELSE Out(cleared, "store", inds)

\* (mutant) the total rate is given to each pore undivided
RateUndivided(total, pores) == Scalar(total.v[1])

\* set_rate_BC turns total_rate into the rate of each pore:
\* rates = total_rate / pores.size
RatePerPore(total, pores) == Scalar(Rat(total.v[1][1], total.v[1][2] * Len(pores)))

\* set_rate_BC(pores, rates, total_rate, mode) on the store (value, rate)
SetRateBCResult(value, rate, pores, rates, total, mode) ==
    LET Raise == [value |-> value, rate |-> rate, raised |-> "args", skipped |-> << >>]
    IN  IF ~IsNone(total)
        THEN IF ~IsScalar(total) THEN Raise
             ELSE IF ~IsNone(rates) THEN Raise
             ELSE IF Len(ParseIndices(pores)) = 0 THEN Raise   \* division by zero
             ELSE SetBC(value, rate, ParseIndices(pores), "rate",
                        RatePerPore(total, ParseIndices(pores)), mode)
        ELSE SetBC(value, rate, pores, "rate", rates, mode)

\* (mutant) 'all' is not expanded to both kinds
RemovedKindsAsGiven(bctype) == Range(bctype)

\* remove_BC: the kinds named by bctype ('all' stands for both)
RemovedKinds(bctype) ==
    IF "all" \in Range(bctype) THEN {"value", "rate"} ELSE Range(bctype)

\* self['pore.bc_<kind>'][pores] = np.nan when the kind is named
RemoveFrom(arr, kind, pores, bctype) ==
    IF kind \in RemovedKinds(bctype)
    THEN [p \in Pores |-> IF p \in Range(pores) THEN NaN ELSE arr[p]]
    ELSE arr

\* (mutant) the arrays are set to NaN whatever bcs is
ResetBCsAlways(arr, bcs) == AllNaN

\* if bcs: both arrays are set to NaN
ResetBCs(arr, bcs) == IF bcs THEN AllNaN ELSE arr

\* ----------------------------------------------------------- the system

\* None, for self._A, self._b, self._pure_A and self._pure_b
NoneM == << >>

NotAssembled == [stage |-> "none", A0 |-> NoneM]

\* No run has completed since the last change.
NotRun == [solver |-> "none", x0 |-> NoneM, x |-> NoneM]

\* GenericTransportSettings: quantity and conductance are '' by default;
\* __init__ sets phase to the name of the phase it is given.
DefaultSettings ==
    [quantity |-> "", conductance |-> "", phase |-> "name", variable_props |-> << >>]

\* The settings once quantity and conductance name an array.
Configured == [DefaultSettings EXCEPT !.quantity = "name", !.conductance = "name"]

\* The pore property the conductance model of the phase is computed from
ConductanceOrigin == <<"pore", "a">>

\* _get_iterative_props: the properties computed from a property of
\* settings['variable_props']; the conductance array, named "name", is
\* computed from ConductanceOrigin
GetIterativeProps(stg) ==
    IF ConductanceOrigin \in Range(stg.variable_props) THEN {"name"} ELSE {}

\* (mutant) the cache setting is left as it is
CacheKept(stg, cch) == cch

\* if gvals in self._get_iterative_props():
\*     self.settings._update({"cache": False})
\* settings['cache'] afterwards
CacheAfter(stg, cch) == cch /\ stg.conductance \notin GetIterativeProps(stg)

RECURSIVE SumFrom(_, _, _, _)
\* The sum of the f[i] with i in lo .. hi and i in S.
SumFrom(f, S, lo, hi) ==
    IF lo > hi THEN Zero
    ELSE IF lo \in S THEN RAdd(f[lo], SumFrom(f, S, lo + 1, hi))
    ELSE SumFrom(f, S, lo + 1, hi)

\* The sum of f[i] over the set S of indices; f is indexed by the pores
\* 0 .. n-1 or by the positions 1 .. n of a sequence.
SumOver(f, S) == SumFrom(f, S, 0, Cardinality(DOMAIN f))

Throats == DOMAIN conns

\* network.create_adjacency_matrix(weights=g, fmt='coo'): the triples
\* <<row, col, weight>>, every throat once in each direction.
AdjacencyCOO(cn, w) ==
    [t \in 1 .. (2 * Len(cn)) |->
        IF t <= Len(cn) THEN <<cn[t][1], cn[t][2], w[t]>>
        ELSE <<cn[t - Len(cn)][2], cn[t - Len(cn)][1], w[t - Len(cn)]>>]

\* The matrix a COO triple list stands for: entries at the same place add up.
Dense(coo) ==
    [i \in Pores |-> [j \in Pores |->
        SumOver([t \in DOMAIN coo |-> coo[t][3]],
                {t \in DOMAIN coo : coo[t][1] = i /\ coo[t][2] = j})]]

\* (mutant) the off-diagonal entries keep the sign of the weights
LaplacianUnsigned(am) ==
    [i \in Pores |-> [j \in Pores |->
        IF i = j
        THEN RSub(SumOver([k \in Pores |-> am[k][i]], Pores), am[i][i])
        ELSE am[i][j]]]

\* spgr.laplacian(am): the column sums without the diagonal go on the
\* diagonal, every other entry is negated.
Laplacian(am) ==
    [i \in Pores |-> [j \in Pores |->
        IF i = j
        THEN RSub(SumOver([k \in Pores |-> am[k][i]], Pores), am[i][i])
        ELSE RNeg(am[i][j])]]

\* (mutant) the matrix is rebuilt on every assembly
BuildPureAFresh(pure, cch, cn, w) == <<Laplacian(Dense(AdjacencyCOO(cn, w)))>>

\* _build_A: the matrix kept in _pure_A afterwards
BuildPureA(pure, cch, cn, w) ==
    LET kept == IF ~cch THEN NoneM ELSE pure
    IN  IF kept = NoneM THEN <<Laplacian(Dense(AdjacencyCOO(cn, w)))>> ELSE kept

\* _build_b: np.zeros(self.Np)
ZeroVector == [p \in Pores |-> Zero]

\* self.A.diagonal().mean()
DiagMean(M) == RMul(SumOver([p \in Pores |-> M[p][p]], Pores), Rat(1, Np))

\* (mutant) nothing is known of the value-BC pores
TimesXBCNothing(M, value, i) == Zero

\* (self.A * x_BC)[i], x_BC holding the BC values and zero elsewhere
TimesXBC(M, value, i) ==
    SumOver([j \in Pores |-> IF IsFinite(value[j]) THEN RMul(M[i][j], value[j]) ELSE Zero],
            Pores)

\* (mutant) the rates are not written to b
WithoutRates(vec, rate) == vec

\* self.b[ind] = self['pore.bc_rate'][ind]
WithRates(vec, rate) == [p \in Pores |-> IF IsFinite(rate[p]) THEN rate[p] ELSE vec[p]]

\* (mutant) the value itself is written to b, not the value times f
WithValuesUnscaled(M, b1, value, f) ==
    [p \in Pores |->
        IF IsFinite(value[p]) THEN value[p]
        ELSE RSub(b1[p], TimesXBC(M, value, p))]

\* b[ind] = bc_value[ind] * f;  b[~ind] -= (A * x_BC)[~ind]
WithValues(M, b1, value, f) ==
    [p \in Pores |->
        IF IsFinite(value[p]) THEN RMul(value[p], f)
        ELSE RSub(b1[p], TimesXBC(M, value, p))]

\* _apply_BCs, the right-hand side
ApplyBCs_b(M, vec, value, rate) == WithValues(M, WithRates(vec, rate), value, DiagMean(M))

\* (mutant) only the rows of the value-BC pores are zeroed
MaskedRowsOnly(i, j, Pbc) == i \in Pbc

\* mask = np.isin(self.A.row, P_bc) | np.isin(self.A.col, P_bc)
Masked(i, j, Pbc) == i \in Pbc \/ j \in Pbc

\* (mutant) every diagonal entry is replaced by f
NewDiagonalAll(old, f, p, Pbc) == f

\* datadiag[P_bc] = f
NewDiagonal(old, f, p, Pbc) == IF p \in Pbc THEN f ELSE old

\* P_bc = self.to_indices(np.isfinite(self['pore.bc_value']))
ValueBCPores(value) == {p \in Pores : IsFinite(value[p])}

\* self.A.data[mask] = 0
ZeroMasked(M, Pbc) ==
    [i \in Pores |-> [j \in Pores |-> IF Masked(i, j, Pbc) THEN Zero ELSE M[i][j]]]

\* self.A.setdiag(datadiag), datadiag the diagonal with f at the BC pores
SetDiag(M, f, Pbc) ==
    [i \in Pores |-> [j \in Pores |->
        IF i = j THEN NewDiagonal(M[i][i], f, i, Pbc) ELSE M[i][j]]]

\* _apply_BCs, the matrix: f is the mean of the diagonal before the change
ApplyBCs_A(M, value) ==
    SetDiag(ZeroMasked(M, ValueBCPores(value)), DiagMean(M), ValueBCPores(value))

\* ------------------------------------------------------------- the solver

\* x / y (y # 0)
RDiv(x, y) == Rat(x[1] * y[2], x[2] * y[1])

\* The system A x = b as rows of Np coefficients followed by the right-hand
\* side.
Augmented(M, vec) ==
    [i \in Pores |-> [j \in 0 .. Np |-> IF j < Np THEN M[i][j] ELSE vec[i]]]

\* The rows from k on with a non-zero entry in column k
PivotRows(aug, k) == {r \in k .. (Np - 1) : aug[r][k] # Zero}

\* Rows k and r exchanged
Swap(aug, k, r) ==
    [i \in Pores |-> IF i = k THEN aug[r] ELSE IF i = r THEN aug[k] ELSE aug[i]]

\* Row k divided by its pivot
NormRow(row, piv) == [j \in 0 .. Np |-> RDiv(row[j], piv)]

\* Column k cleared from every row but row k, which becomes nrow
Reduce(aug, k, nrow) ==
    [i \in Pores |->
        IF i = k THEN nrow
        ELSE [j \in 0 .. Np |-> RSub(aug[i][j], RMul(aug[i][k], nrow[j]))]]

ReduceAt(aug, k) == Reduce(aug, k, NormRow(aug[k], aug[k][k]))

RECURSIVE Eliminate(_, _)
\* Gauss-Jordan elimination from column k on; << >> when the matrix is
\* singular.
Eliminate(aug, k) ==
    IF k = Np THEN aug
    ELSE IF PivotRows(aug, k) = {} THEN << >>
    ELSE Eliminate(ReduceAt(Swap(aug, k, CHOOSE r \in PivotRows(aug, k) :
                                            \A q \in PivotRows(aug, k) : r <= q), k),
                   k + 1)

\* The exact solution of M x = vec, << >> when M is singular
ExactSolution(M, vec) ==
    LET e == Eliminate(Augmented(M, vec), 0)
    IN  IF e = << >> THEN << >> ELSE <<[i \in Pores |-> e[i][Np]]>>

\* One Jacobi sweep from x0: x0[i] + (vec[i] - (M x0)[i]) / M[i,i]
Sweep(M, vec, x0) ==
    [i \in Pores |->
        IF M[i][i] = Zero THEN x0[i]
        ELSE RAdd(x0[i],
                  RDiv(RSub(vec[i], SumOver([j \in Pores |-> RMul(M[i][j], x0[j])], Pores)),
                       M[i][i]))]

\* What solver.solve(A, b, x0) returns: the vector and the exit code.  The
\* exact solver returns the solution with exit code 0, and gives x0 back
\* with exit code 1 when the matrix is singular; the stalled solver is an
\* iterative solver that stops after one sweep, with exit code 1.
Solve(solver, M, vec, x0) ==
    IF solver = "exact"
    THEN IF ExactSolution(M, vec) = << >> THEN [x |-> x0, exit_code |-> 1]
         ELSE [x |-> ExactSolution(M, vec)[1], exit_code |-> 0]
    ELSE [x |-> Sweep(M, vec, x0), exit_code |-> 1]

\* -------------------------------------------------------------------- run

\* Ps = ~np.isnan(bc_rate) + ~np.isnan(bc_value): the pores with a BC
BCPores(value, rate) == {p \in Pores : IsFinite(rate[p]) \/ IsFinite(value[p])}

RECURSIVE Cluster(_, _)
\* The pores joined to a pore of S by a chain of throats
Cluster(cn, S) ==
    LET T == S \cup {cn[t][2] : t \in {u \in DOMAIN cn : cn[u][1] \in S}}
               \cup {cn[t][1] : t \in {u \in DOMAIN cn : cn[u][2] \in S}}
    IN  IF T = S THEN S ELSE Cluster(cn, T)

\* am.resize(Np + 1, Np + 1); am.rows[-1] = pores_BC: one more site, number
\* Np, joined to every pore of pores_BC
WithBCNode(cn, bc) ==
    cn \o [k \in 1 .. Cardinality(bc) |-> <<SortedSeq(bc)[k], Np>>]

\* (mutant) the pores of pores_BC are not looked at
IsOneCluster(cn, bc) == Cluster(cn, {0}) = Pores

\* is_fully_connected(network, pores_BC): the connected components are one;
\* if not, they are one once the site joined to pores_BC is added
IsFullyConnected(cn, bc) ==
    \/ Cluster(cn, {0}) = Pores
    \/ Cluster(WithBCNode(cn, bc), {0}) = Pores \cup {Np}

\* The object as a run finds it.  raised: "no", or where the run stopped
\* ("settings", "topology", "health", or "lookup": an array asked for under
\* the empty name); solved: solver.solve was called.
Entering ==
    [A |-> A, b |-> b, pure_A |-> pure_A, pure_b |-> pure_b,
     solution |-> solution, initial_guess |-> initial_guess, asm |-> asm,
     cache |-> cache, raised |-> "no", solved |-> FALSE, exit_code |-> 0,
     steps |-> << >>]

\* The step a run has come to is added to the steps it has taken.
Step(st, name) == [st EXCEPT !.steps = Append(@, name)]

\* _validate_settings raises
SettingsMissing(stg) ==
    stg.quantity = "None" \/ stg.conductance = "None" \/ stg.phase = "None"

\* An array can be read or written under this name
Names(name) == name = "name"

\* self.A = self._pure_A.copy()
CopyPureA(st) ==
    [st EXCEPT !.A = st.pure_A, !.asm = [stage |-> "built", A0 |-> NoneM]]

\* _build_A; settings['cache'] is read from the object (st.cache, cch when
\* the call began)
BuildA(st, stg, cch, cn, w) ==
    IF st.raised # "no" THEN st
    ELSE IF (~CacheAfter(stg, st.cache) \/ st.pure_A = NoneM) /\ ~Names(stg.conductance)
    THEN [st EXCEPT !.raised = "lookup",
                    !.cache = CacheAfter(stg, @),
                    !.pure_A = IF CacheAfter(stg, st.cache) THEN @ ELSE NoneM]
    ELSE CopyPureA([st EXCEPT !.cache = CacheAfter(stg, @),
                              !.pure_A = BuildPureA(@, CacheAfter(stg, st.cache), cn, w)])

\* _build_b
BuildB(st) ==
    IF st.raised # "no" THEN st
    ELSE [st EXCEPT !.pure_b = <<ZeroVector>>, !.b = <<ZeroVector>>]

\* (mutant) the BCs are applied to the cached matrix itself
ApplyBCsInPlace(st, value, rate) ==
    IF st.raised # "no" THEN st
    ELSE [st EXCEPT !.A = <<ApplyBCs_A(@[1], value)>>,
                    !.pure_A = <<ApplyBCs_A(st.A[1], value)>>,
                    !.b = <<ApplyBCs_b(st.A[1], @[1], value, rate)>>,
                    !.asm = [stage |-> "applied", A0 |-> st.A]]

\* _apply_BCs
ApplyBCs(st, value, rate) ==
    IF st.raised # "no" THEN st
    ELSE [st EXCEPT !.A = <<ApplyBCs_A(@[1], value)>>,
                    !.b = <<ApplyBCs_b(st.A[1], @[1], value, rate)>>,
                    !.asm = [stage |-> "applied", A0 |-> st.A]]

\* _update_A_and_b
UpdateAandB(st, stg, cch, cn, w, value, rate) ==
    IF st.raised # "no" THEN st
    ELSE ApplyBCs(BuildB(BuildA(Step(st, "_update_A_and_b"), stg, cch, cn, w)),
                  value, rate)

\* The properties A and b, read: built when None
ReadA(st, stg, cch, cn, w) == IF st.A = NoneM THEN BuildA(st, stg, cch, cn, w) ELSE st
ReadB(st) == IF st.b = NoneM THEN BuildB(st) ELSE st

\* np.isfinite(self.A.data).all() and np.isfinite(self.b).all()
AllFinite(st) ==
    /\ \A i, j \in Pores : IsFinite(st.A[1][i][j])
    /\ \A i \in Pores : IsFinite(st.b[1][i])

\* The end of _validate_data_health, A and b read
HealthChecked(st) ==
    IF st.raised # "no" \/ AllFinite(st) THEN st ELSE [st EXCEPT !.raised = "health"]

\* _validate_data_health
ValidateDataHealth(st, stg, cch, cn, w, value, rate) ==
    IF st.raised # "no" THEN st
    ELSE IF ~IsFullyConnected(cn, BCPores(value, rate))
    THEN [Step(st, "_validate_data_health") EXCEPT !.raised = "topology"]
    ELSE HealthChecked(ReadB(ReadA(Step(st, "_validate_data_health"), stg, cch, cn, w)))

\* _validate_settings
ValidateSettings(st, stg) ==
    IF SettingsMissing(stg)
    THEN [Step(st, "_validate_settings") EXCEPT !.raised = "settings"]
    ELSE Step(st, "_validate_settings")

\* (mutant) without x0 the run starts from the solution already stored
InitialGuessFromSolution(x0, st) ==
    IF x0 # NoneM THEN x0
    ELSE IF st.solution = NoneM THEN <<ZeroVector>> ELSE st.solution

\* x0 = np.zeros_like(self.b) if x0 is None else x0
InitialGuess(x0, st) == IF x0 = NoneM THEN <<ZeroVector>> ELSE x0

\* self[quantity] = x0; self['pore.initial_guess'] = x0
WriteX0(st, x0, stg) ==
    IF st.raised # "no" THEN st
    ELSE IF ~Names(stg.quantity) THEN [Step(st, "x0") EXCEPT !.raised = "lookup"]
    ELSE [Step(st, "x0") EXCEPT !.solution = InitialGuess(x0, st),
                                !.initial_guess = InitialGuess(x0, st)]

\* x_new, exit_code = solver.solve(A=self.A, b=self.b, x0=x0);
\* self[quantity] = w * x_new + (1 - w) * self[quantity], w = 1
Solved(st, solver) ==
    IF st.raised # "no" THEN st
    ELSE [Step(Step(st, "solve"), "x") EXCEPT
              !.solution = <<Solve(solver, st.A[1], st.b[1], st.initial_guess[1]).x>>,
              !.exit_code = Solve(solver, st.A[1], st.b[1], st.initial_guess[1]).exit_code,
              !.solved = TRUE]

\* (mutant) the system is not assembled again after the solve
RunSpecialOnlySolves(st, solver, stg, cch, cn, w, value, rate) ==
    Solved(ValidateDataHealth(st, stg, cch, cn, w, value, rate), solver)

\* _run_special
RunSpecial(st, solver, stg, cch, cn, w, value, rate) ==
    UpdateAandB(Solved(ValidateDataHealth(st, stg, cch, cn, w, value, rate), solver),
                stg, cch, cn, w, value, rate)

\* run(solver, x0), from the object as it is now
RunResult(solver, x0) ==
    RunSpecial(
        UpdateAandB(
            WriteX0(ValidateDataHealth(ValidateSettings(Entering, settings),
                                       settings, cache, conns, g, bc_value, bc_rate),
                    x0, settings),
            settings, cache, conns, g, bc_value, bc_rate),
        solver, settings, cache, conns, g, bc_value, bc_rate)

\* ------------------------------------------------- the search for NaNs

\* The most geometry and physics objects a project is given.
MaxObjects == 2

\* Property names, as the parts between the dots
PoreA == <<"pore", "a">>
PoreB == <<"pore", "b">>
PoreC == <<"pore", "c">>
PoreD == <<"pore", "d">>
ThroatG == <<"throat", "g">>

NoGraph == [nodes |-> {}, edges |-> {}]

\* The phase of the project: its name, the dependency graph of its models
\* (an edge <<m, n>>: n is computed from m) and the keys its data-health
\* report gives as 'Has NaNs'.  Pore b is computed from pore a.
PhaseObjects ==
    {[name |-> "phase", graph |-> [nodes |-> {PoreA, PoreB}, edges |-> {<<PoreA, PoreB>>}],
      nans |-> ns] : ns \in {{}, {PoreA}, {PoreA, PoreB}, {PoreD}}}

\* The geometry objects: pore c is theirs, without dependency.
GeometryObjects ==
    {[name |-> "geo", graph |-> [nodes |-> {PoreC}, edges |-> {}], nans |-> ns] :
        ns \in {{}, {<<"pore", "c", "x">>}, {PoreD}}}

\* The physics objects: the conductance is computed from pores b and c.
PhysicsObjects ==
    {[name |-> "phys",
      graph |-> [nodes |-> {PoreB, PoreC, ThroatG},
                 edges |-> {<<PoreB, ThroatG>>, <<PoreC, ThroatG>>}],
      nans |-> ns] : ns \in {{}, {ThroatG}}}
    \cup {[name |-> "phys", graph |-> NoGraph, nans |-> {ThroatG}]}

\* What the project answers when it is asked: check_geometry_health()
\* (key -> the offending items), the phase, geometries() and physics(),
\* each with its dependency graph and its check_data_health().
Projects ==
    [geometry_health : {[overlapping_pores |-> {}, undefined_pores |-> {}],
                        [overlapping_pores |-> {}, undefined_pores |-> {0}]},
     phase : PhaseObjects,
     geometries : UNION {[1 .. n -> GeometryObjects] : n \in 0 .. MaxObjects},
     physics : UNION {[1 .. n -> PhysicsObjects] : n \in 0 .. MaxObjects}]

\* (mutant) no issue is taken from the geometry health
NoIssues(h) == {}

\* issues = [k for k, v in h.items() if v]
Issues(h) == {k \in DOMAIN h : h[k] # {}}

\* ".".join(k.split(".")[:2])
BaseProp(k) == IF Len(k) <= 2 THEN k ELSE SubSeq(k, 1, 2)

\* nx.compose_all of the dependency graphs
ComposeAll(objs) ==
    [nodes |-> UNION {objs[i].graph.nodes : i \in DOMAIN objs},
     edges |-> UNION {objs[i].graph.edges : i \in DOMAIN objs}]

\* nx.subgraph(dg, nodes)
Subgraph(dg, nodes) ==
    [nodes |-> dg.nodes \cap nodes,
     edges |-> {e \in dg.edges : e[1] \in nodes /\ e[2] \in nodes}]

RECURSIVE Upstream(_, _)
\* The nodes with a path to a node of S, S included
Upstream(dg, S) ==
    LET T == S \cup {e[1] : e \in {f \in dg.edges : f[2] \in S}}
    IN  IF T = S THEN S ELSE Upstream(dg, T)

\* nx.ancestors(dg, n)
Ancestors(dg, n) == Upstream(dg, {n}) \ {n}

\* The base names an object's report gives as 'Has NaNs'
Flagged(obj) == {BaseProp(k) : k \in obj.nans}

\* d.keys(): the flagged names that are nodes of dg
Accounted(objs, dg) == UNION {Flagged(objs[i]) : i \in DOMAIN objs} \cap dg.nodes

\* What the loop adds to unaccounted_nans for these objects
Unaccounted(objs, dg) == UNION {Flagged(objs[i]) : i \in DOMAIN objs} \ dg.nodes

\* d: the flagged name -> the name of the last object flagging it
OwnerOf(objs, n) ==
    objs[CHOOSE i \in DOMAIN objs :
            /\ n \in Flagged(objs[i])
            /\ \A j \in DOMAIN objs : n \in Flagged(objs[j]) => j <= i].name

\* (mutant) the ancestors are looked for in the whole merged graph
RootPropsInGraph(dg, d) == {n \in d : Ancestors(dg, n) \cap d = {}}

\* root_props = [n for n in d.keys() if not nx.ancestors(dg_nans, n)]
RootProps(dg, d) == {n \in d : Ancestors(Subgraph(dg, d), n) = {}}

\* (mutant) nothing found is no error
UnlocatedPasses(unaccounted) ==
    IF unaccounted # {}
    THEN [raised |-> "unaccounted", pair |-> 0, props |-> unaccounted, objs |-> {}]
    ELSE [raised |-> "no", pair |-> 0, props |-> {}, objs |-> {}]

\* After the loop: the unaccounted names are raised if there are any, the
\* message about caching otherwise
Unlocated(unaccounted) ==
    IF unaccounted # {}
    THEN [raised |-> "unaccounted", pair |-> 0, props |-> unaccounted, objs |-> {}]
    ELSE [raised |-> "generic", pair |-> 0, props |-> {}, objs |-> {}]

\* The number of turns of: for geom, phys in zip(geometries, physics)
Pairs(prj) ==
    IF Len(prj.geometries) < Len(prj.physics)
    THEN Len(prj.geometries) ELSE Len(prj.physics)

\* objs = [phase, geom, phys]
PairObjects(prj, k) == <<prj.phase, prj.geometries[k], prj.physics[k]>>

RECURSIVE LocateRoots(_, _, _)
\* The loop from its turn k on; the sets stand for the lists of the
\* messages, whose order and repetitions are left out.
LocateRoots(prj, k, unaccounted) ==
    IF k > Pairs(prj) THEN Unlocated(unaccounted)
    ELSE LET objs == PairObjects(prj, k)
             dg == ComposeAll(objs)
         IN  IF RootProps(dg, Accounted(objs, dg)) # {}
             THEN [raised |-> "roots", pair |-> k,
                   props |-> RootProps(dg, Accounted(objs, dg)),
                   objs |-> {OwnerOf(objs, n) : n \in Accounted(objs, dg)}]
             ELSE LocateRoots(prj, k + 1, unaccounted \cup Unaccounted(objs, dg))

\* _validate_geometry_health, then the search
Diagnosed(prj) ==
    IF Issues(prj.geometry_health) # {}
    THEN [raised |-> "geometry", pair |-> 0,
          props |-> Issues(prj.geometry_health), objs |-> {}]
    ELSE LocateRoots(prj, 1, {})

\* The end of _validate_data_health, st being the object after the topology
\* check and the read of A and b, the project answering prj: the steps
\* taken and the error raised
DataHealth(st, prj) ==
    IF st.raised # "health"
    THEN [steps |-> st.steps,
          error |-> [raised |-> st.raised, pair |-> 0, props |-> {}, objs |-> {}]]
    ELSE [steps |-> IF Issues(prj.geometry_health) # {} \/ Pairs(prj) = 0
                    THEN Append(st.steps, "_validate_geometry_health")
                    ELSE st.steps \o <<"_validate_geometry_health", "dependency_graph">>,
          error |-> Diagnosed(prj)]

\* ------------------------------------------------------------ conns_to_am

\* The longest list of connections handed to conns_to_am.
MaxConns == 3

\* The site numbers of its connections; -1 marks a missing end
Sites == -1 .. 2

\* np.sort(conns, axis=1): every connection as [low, high]
SortedRows(cs) ==
    [k \in DOMAIN cs |-> IF cs[k][1] <= cs[k][2] THEN cs[k] ELSE <<cs[k][2], cs[k][1]>>]

\* conns[~np.any(conns < 0, axis=1)]
WithoutNegs(cs) == SelectSeq(cs, LAMBDA c : c[1] >= 0 /\ c[2] >= 0)

\* conns[conns[:, 0] != conns[:, 1]]
WithoutDiag(cs) == SelectSeq(cs, LAMBDA c : c[1] # c[2])

\* sprs.coo_matrix((ones, (conns[:, 0], conns[:, 1]))).tocsr().tocoo(): one
\* entry for each pair of sites, the entries of the pair summed
SummedDuplicates(cs) ==
    {[row |-> c[1], col |-> c[2],
      data |-> Cardinality({k \in DOMAIN cs : cs[k] = c})] : c \in Range(cs)}

\* conns_to_am(conns) with shape=None, force_triu, drop_diag, drop_dupes and
\* drop_negs True; conns.max() raises on an empty array
ConnsToAm(cs) ==
    IF WithoutDiag(WithoutNegs(SortedRows(cs))) = << >>
    THEN [raised |-> "value", am |-> {}]
    ELSE [raised |-> "no", am |-> SummedDuplicates(WithoutDiag(WithoutNegs(SortedRows(cs))))]

\* ------------------------------------------------------------------- rate

\* |v|
RAbs(v) == <<Abs(v[1]), v[2]>>

\* Qt before the squeeze: np.diff(g * X12, axis=1), g flipped: for the
\* throat joining i to j, g*x[j] - g*x[i]
ThroatRates(cn, w, xs) ==
    [t \in DOMAIN cn |-> RSub(RMul(w[t], xs[cn[t][2]]), RMul(w[t], xs[cn[t][1]]))]

\* .squeeze(): the Nt-by-1 array becomes a vector, and a number without
\* dimension when Nt is 1
Squeezed(q) == IF Len(q) = 1 THEN Scalar(q[1]) ELSE Array(q)

\* Qt[throats] can be taken: Qt has a dimension to index
CanIndex(Qt) == ~IsScalar(Qt)

\* np.sum(R) in mode 'group', R otherwise
Grouped(R, mode) == IF mode = "group" THEN <<SumOver(R, DOMAIN R)>> ELSE R

\* (mutant) only the first pore of each throat is given its share
PoreRatesFirstEnd(cn, Qt) ==
    [p \in Pores |->
        RNeg(SumOver([t \in DOMAIN cn |-> Qt.v[t]], {t \in DOMAIN cn : cn[t][1] = p}))]

\* Qp: np.add.at(Qp, P12[:, 0], -Qt); np.add.at(Qp, P12[:, 1], Qt)
PoreRates(cn, Qt) ==
    [p \in Pores |->
        RSub(SumOver([t \in DOMAIN cn |-> Qt.v[t]], {t \in DOMAIN cn : cn[t][2] = p}),
             SumOver([t \in DOMAIN cn |-> Qt.v[t]], {t \in DOMAIN cn : cn[t][1] = p}))]

\* The end of rate, Qt computed
RateOf(Qt, pores, throats, mode, cn) ==
    IF throats # << >>
    THEN IF CanIndex(Qt)
         THEN [raised |-> "no",
               returned |-> Grouped([k \in DOMAIN throats |-> RAbs(Qt.v[throats[k]])], mode)]
         ELSE [raised |-> "index", returned |-> << >>]
    ELSE [raised |-> "no",
          returned |-> Grouped([k \in DOMAIN pores |-> PoreRates(cn, Qt)[pores[k]]], mode)]

\* (mutant) only pores and throats given together are refused
BothGiven(pores, throats) == throats # << >> /\ pores # << >>

\* throats.size > 0 and pores.size > 0, or throats.size == pores.size == 0
BothOrNeither(pores, throats) ==
    (throats # << >> /\ pores # << >>) \/ (throats = << >> /\ pores = << >>)

\* rate(pores, throats, mode).  Throat t of the model is throat t-1 of the
\* network.
RateResult(pores, throats, mode, stg, cn, w, sol) ==
    IF BothOrNeither(pores, throats)
    THEN [raised |-> "args", returned |-> << >>]
    ELSE IF ~Names(stg.phase) \/ ~Names(stg.conductance) \/ ~Names(stg.quantity)
            \/ sol = NoneM
    THEN [raised |-> "lookup", returned |-> << >>]
    ELSE RateOf(Squeezed(ThroatRates(cn, w, sol[1])), pores, throats, mode, cn)

\* ---------------------------------------------------------------- actions

\* __new__ and __init__ (cache is the default of GenericTransportSettings)
Constructor ==
    /\ A = NoneM /\ b = NoneM /\ pure_A = NoneM /\ pure_b = NoneM
    /\ cache = TRUE
    /\ asm = NotAssembled
    /\ solution = NoneM /\ initial_guess = NoneM
    /\ settings = DefaultSettings
    /\ ran = NotRun
    /\ last = Constructed

\* An algorithm on a network of NumPores pores; the throats play no part in
\* the boundary-condition calls.
Init ==
    /\ Np = NumPores /\ conns = << >> /\ g = << >>
    /\ Constructor
    /\ bc_value = AllNaN
    /\ bc_rate = AllNaN

set_value_BC ==
    /\ last.op \in {"none", "__init__"}
    /\ \E pores \in PoreSeqs, args \in ValueModeArgs :
        LET r == SetBC(bc_value, bc_rate, pores, "value", args[1], args[2])
        IN  /\ bc_value' = r.value
            /\ bc_rate' = r.rate
            /\ last' = [NoCall EXCEPT !.op = "set_value_BC", !.pores = pores,
                            !.values = args[1], !.mode = args[2],
                            !.raised = r.raised, !.skipped = r.skipped,
                            !.pre_value = bc_value, !.pre_rate = bc_rate]
            /\ ran' = NotRun
            /\ UNCHANGED <<netvars, sysvars, asm, solution, initial_guess, settings>>

set_rate_BC ==
    /\ last.op \in {"none", "__init__"}
    /\ \E pores \in PoreSeqs, args \in RateModeArgs :
        LET r == SetRateBCResult(bc_value, bc_rate, pores, args[1], args[2], args[3])
        IN  /\ bc_value' = r.value
            /\ bc_rate' = r.rate
            /\ last' = [NoCall EXCEPT !.op = "set_rate_BC", !.pores = pores,
                            !.values = args[1], !.total = args[2], !.mode = args[3],
                            !.raised = r.raised, !.skipped = r.skipped,
                            !.pre_value = bc_value, !.pre_rate = bc_rate]
            /\ ran' = NotRun
            /\ UNCHANGED <<netvars, sysvars, asm, solution, initial_guess, settings>>

\* remove_BC(pores, bctype); pores is None (every pore, self.Ps) or a list
remove_BC ==
    /\ last.op \in {"none", "__init__"}
    /\ \E isnone \in BOOLEAN, given \in PoreSeqs, bctype \in BcTypeArgs :
        LET pores == IF isnone THEN SortedSeq(Pores) ELSE given
        IN  /\ isnone => given = << >>
            /\ bc_value' = RemoveFrom(bc_value, "value", pores, bctype)
            /\ bc_rate' = RemoveFrom(bc_rate, "rate", pores, bctype)
            /\ last' = [NoCall EXCEPT !.op = "remove_BC", !.pores = pores,
                            !.allpores = isnone, !.bctype = bctype,
                            !.pre_value = bc_value, !.pre_rate = bc_rate]
            /\ ran' = NotRun
            /\ UNCHANGED <<netvars, sysvars, asm, solution, initial_guess, settings>>

reset ==
    /\ last.op \in {"none", "__init__"}
    /\ \E bcs \in BOOLEAN, results \in BOOLEAN :
        /\ bc_value' = ResetBCs(bc_value, bcs)
        /\ bc_rate' = ResetBCs(bc_rate, bcs)
        /\ A' = NoneM /\ b' = NoneM /\ pure_A' = NoneM /\ pure_b' = NoneM
        /\ asm' = NotAssembled
        /\ last' = [NoCall EXCEPT !.op = "reset", !.bcs = bcs, !.results = results,
                        !.pre_value = bc_value, !.pre_rate = bc_rate,
                        !.pre = <<A, b, solution, pure_A>>]
        /\ solution' = IF results THEN NoneM ELSE solution
        /\ ran' = NotRun
        /\ UNCHANGED <<netvars, cache, initial_guess, settings>>

\* The caller has seen the outcome of the call; the next call can be made.
Return ==
    /\ last.op # "none"
    /\ last' = NoCall
    /\ UNCHANGED <<bcvars, netvars, sysvars, asm, solvars>>

\* The property A read while self._A is None: _build_A
get_A ==
    /\ last.op = "none"
    /\ A = NoneM
    /\ cache' = CacheAfter(settings, cache)
    /\ pure_A' = BuildPureA(pure_A, cache', conns, g)
    /\ A' = pure_A'
    /\ asm' = [stage |-> "built", A0 |-> NoneM]
    /\ UNCHANGED <<netvars, bcvars, b, pure_b, solvars, last>>

\* The property b read while self._b is None: _build_b
get_b ==
    /\ last.op = "none"
    /\ b = NoneM
    /\ pure_b' = <<ZeroVector>>
    /\ b' = pure_b'
    /\ UNCHANGED <<netvars, bcvars, A, pure_A, cache, asm, solvars, last>>

\* _update_A_and_b: _build_A, _build_b, _apply_BCs
update_A_and_b ==
    /\ last.op = "none"
    /\ cache' = CacheAfter(settings, cache)
    /\ pure_A' = BuildPureA(pure_A, cache', conns, g)
    /\ pure_b' = <<ZeroVector>>
    /\ A' = <<ApplyBCs_A(pure_A'[1], bc_value)>>
    /\ b' = <<ApplyBCs_b(pure_A'[1], ZeroVector, bc_value, bc_rate)>>
    /\ asm' = [stage |-> "applied", A0 |-> pure_A']
    /\ UNCHANGED <<netvars, bcvars, solvars, last>>

\* The conductances of n throats: all 1, or alternating between 1 and 2.
GLists(n) ==
    {[t \in 1 .. n |-> Rat(1, 1)],
     [t \in 1 .. n |-> IF t % 2 = 1 THEN Rat(1, 1) ELSE Rat(2, 1)],
     [t \in 1 .. n |-> IF t % 2 = 1 THEN Rat(2, 1) ELSE Rat(1, 1)]}

\* What a run leaves
RunStep(r, solver, x0) ==
    /\ A' = r.A /\ b' = r.b /\ pure_A' = r.pure_A /\ pure_b' = r.pure_b
    /\ solution' = r.solution /\ initial_guess' = r.initial_guess
    /\ asm' = r.asm
    /\ cache' = r.cache
    /\ ran' = IF r.raised = "no"
              THEN [solver |-> solver, x0 |-> x0, x |-> r.solution]
              ELSE NotRun
    /\ last' = [NoCall EXCEPT !.op = "run", !.solver = solver, !.x0 = x0,
                    !.raised = r.raised, !.solved = r.solved,
                    !.exit_code = r.exit_code, !.steps = r.steps,
                    !.pre = <<A, b, solution, pure_A>>, !.pre_ran = ran]
    /\ UNCHANGED <<netvars, bcvars, settings>>

\* The solvers handed to run, and its x0 argument: None, or (on a network
\* of two pores) a vector of ones
Solvers == {"exact", "stalled"}
X0Args == {NoneM} \cup (IF Np = 2 THEN {<<[p \in Pores |-> Rat(1, 1)]>>} ELSE {})

\* run(solver, x0)
run ==
    /\ last.op = "none"
    /\ \E solver \in Solvers, x0 \in X0Args : RunStep(RunResult(solver, x0), solver, x0)

\* The 'pores' and 'throats' arguments of rate: one pore, the value-BC
\* pores, a pore twice; one throat, every throat; both; neither.
RatePoreArgs ==
    {<<p>> : p \in Pores} \cup {<<p, p>> : p \in {0}}
    \cup {SortedSeq(ValueBCPores(bc_value))}
RateThroatArgs == {<<t>> : t \in DOMAIN conns} \cup {SortedSeq(DOMAIN conns)}
RateArgPairs ==
    {<<ps, << >> >> : ps \in RatePoreArgs \cup {<< >>}}
    \cup {<< << >>, ts>> : ts \in RateThroatArgs}
    \cup {<< <<0>>, <<1>> >>}

\* rate(pores, throats, mode): reads, changes nothing
rate ==
    /\ last.op = "none"
    /\ \E args \in RateArgPairs, mode \in {"group", "single"} :
        /\ last' = [NoCall EXCEPT !.op = "rate", !.pores = args[1],
                        !.throats = args[2], !.mode = mode,
                        !.raised = RateResult(args[1], args[2], mode, settings,
                                              conns, g, solution).raised,
                        !.returned = RateResult(args[1], args[2], mode, settings,
                                                conns, g, solution).returned]
        /\ UNCHANGED <<netvars, bcvars, sysvars, asm, solvars>>

\* The project is not asked anything.
NoProject == << >>

\* What _validate_data_health leaves, st being the object after the
\* topology check and the read of A and b; the project is asked only when A
\* or b holds an entry that is not finite.
HealthStep(st) ==
    /\ A' = st.A /\ b' = st.b
    /\ pure_A' = st.pure_A /\ pure_b' = st.pure_b
    /\ asm' = st.asm
    /\ cache' = st.cache
    /\ \E prj \in (IF st.raised = "health" THEN Projects ELSE {NoProject}) :
          last' = [NoCall EXCEPT !.op = "_validate_data_health",
                      !.raised = DataHealth(st, prj).error.raised,
                      !.pair = DataHealth(st, prj).error.pair,
                      !.props = DataHealth(st, prj).error.props,
                      !.objs = DataHealth(st, prj).error.objs,
                      !.project = prj, !.steps = DataHealth(st, prj).steps]
    /\ UNCHANGED <<netvars, bcvars, solvars>>

\* _validate_data_health called on its own
validate_data_health ==
    /\ last.op = "none"
    /\ HealthStep(ValidateDataHealth(Entering, settings, cache, conns, g,
                                     bc_value, bc_rate))

\* The lists of connections handed to conns_to_am
ConnsArgs == UNION {[1 .. n -> Sites \X Sites] : n \in 0 .. MaxConns}

\* conns_to_am(conns): reads, changes nothing
conns_to_am ==
    /\ last.op \in {"none", "__init__"}
    /\ \E cs \in ConnsArgs :
        /\ last' = [NoCall EXCEPT !.op = "conns_to_am", !.links = cs,
                        !.raised = ConnsToAm(cs).raised, !.am = ConnsToAm(cs).am]
        /\ UNCHANGED <<netvars, bcvars, sysvars, asm, solvars>>

\* The names handed to set_variable_props: with or without the element
RawProps == {<<"a">>, <<"pore", "a">>, <<"pore", "b">>}

\* Its 'variable_props' argument: one name, or a list of at most two
VariablePropArgs ==
    {Scalar(n) : n \in RawProps}
    \cup {Array(l) : l \in UNION {[1 .. k -> RawProps] : k \in 0 .. 2}}

\* _parse_prop(propname, element): the name under the element
ParseProp(propname, element) == <<element, propname[Len(propname)]>>

\* (mutant) a property already listed is not listed again
MergedOnce(props, mode, parsed) ==
    IF mode = "overwrite" THEN parsed
    ELSE props \o SelectSeq(parsed, LAMBDA n : n \notin Range(props))

\* if mode == 'overwrite': settings['variable_props'] = []; then every
\* parsed name is appended
Appended(props, mode, parsed) ==
    (IF mode = "overwrite" THEN << >> ELSE props) \o parsed

\* set_variable_props(variable_props, mode): settings['variable_props']
\* afterwards; a string is a list of one name
SetVariableProps(props, arg, mode) ==
    IF ~ParseModeOK(mode, {"merge", "overwrite"})
    THEN [raised |-> "args", props |-> props]
    ELSE [raised |-> "no",
          props |-> Appended(props, mode,
                             [k \in DOMAIN arg.v |-> ParseProp(arg.v[k], "pore")])]

set_variable_props ==
    /\ last.op \in {"none", "__init__"}
    /\ \E arg \in VariablePropArgs, mode \in {"merge", "overwrite", "remove"} :
        LET r == SetVariableProps(settings.variable_props, arg, mode)
        IN  /\ Len(r.props) <= MaxProps
            /\ settings' = [settings EXCEPT !.variable_props = r.props]
            /\ last' = [NoCall EXCEPT !.op = "set_variable_props", !.values = arg,
                            !.mode = mode, !.raised = r.raised,
                            !.pre = settings.variable_props]
            /\ ran' = NotRun
            /\ UNCHANGED <<netvars, bcvars, sysvars, asm, solution, initial_guess>>

\* The conductance arrays of a phase: all 1, or alternating from 2
PhaseGLists(n) ==
    {[t \in 1 .. n |-> Rat(1, 1)],
     [t \in 1 .. n |-> IF t % 2 = 1 THEN Rat(2, 1) ELSE Rat(1, 1)]}

\* The conductance array of the phase is given other values.
set_conductance ==
    /\ last.op = "none"
    /\ \E w \in PhaseGLists(Len(conns)) \ {g} :
        /\ g' = w
        /\ ran' = NotRun
        /\ UNCHANGED <<Np, conns, bcvars, sysvars, asm, solution, initial_guess,
                       settings, last>>

\* ------------------------------------------------ the assembly, explored

PorePairs == {pr \in (0 .. (NetPores - 1)) \X (0 .. (NetPores - 1)) : pr[1] < pr[2]}

\* throat.conns of a network without repeated throats: distinct pairs
\* <<i, j>>, i < j, listed in increasing order.
ConnsLists ==
    {s \in UNION {[1 .. n -> PorePairs] : n \in 0 .. MaxThroats} :
        \A k \in 1 .. (Len(s) - 1) :
            \/ s[k][1] < s[k + 1][1]
            \/ (s[k][1] = s[k + 1][1] /\ s[k][2] < s[k + 1][2])}

\* The stores the boundary-condition calls can leave: at most one kind on
\* each pore (value 2 or rate 1).
Stores ==
    {st \in [value : [0 .. (NetPores - 1) -> {Rat(2, 1), NaN}],
             rate : [0 .. (NetPores - 1) -> {Rat(1, 1), NaN}]] :
        \A p \in 0 .. (NetPores - 1) :
            ~(IsFinite(st.value[p]) /\ IsFinite(st.rate[p]))}

\* An algorithm on any network of NetPores pores, with any conductances,
\* once its boundary conditions have been set.
InitAsm ==
    /\ Np = NetPores
    /\ conns \in ConnsLists
    /\ g \in GLists(Len(conns))
    /\ \E st \in Stores : bc_value = st.value /\ bc_rate = st.rate
    /\ A = NoneM /\ b = NoneM /\ pure_A = NoneM /\ pure_b = NoneM
    /\ cache = TRUE
    /\ asm = NotAssembled
    /\ solution = NoneM /\ initial_guess = NoneM
    /\ settings = Configured
    /\ ran = NotRun
    /\ last = NoCall

\* ------------------------------------------------------ the run, explored

\* The networks a run is explored on: two pores and a throat; the path
\* 0-1-2; the triangle; a throat and a pore on its own.
RunNetworks ==
    {[Np |-> 2, conns |-> << <<0, 1>> >>],
     [Np |-> 3, conns |-> << <<0, 1>>, <<1, 2>> >>],
     [Np |-> 3, conns |-> << <<0, 1>>, <<0, 2>>, <<1, 2>> >>],
     [Np |-> 3, conns |-> << <<0, 1>> >>]}

\* The stores of a network of n pores: on each pore nothing, the value 0 or
\* 10, or the rate 5.
RunStores(n) ==
    {st \in [value : [0 .. (n - 1) -> {Zero, Rat(10, 1), NaN}],
             rate : [0 .. (n - 1) -> {Rat(5, 1), NaN}]] :
        \A p \in 0 .. (n - 1) : ~(IsFinite(st.value[p]) /\ IsFinite(st.rate[p]))}

\* The settings of an algorithm: complete, as the settings class leaves
\* them, with one setting that is '' or None, or complete with the property
\* the conductance is computed from set as variable.
SettingsArgs ==
    {Configured, DefaultSettings,
     [Configured EXCEPT !.variable_props = <<ConductanceOrigin>>]}
    \cup {[Configured EXCEPT !.quantity = v] : v \in {"", "None"}}
    \cup {[Configured EXCEPT !.conductance = v] : v \in {"", "None"}}
    \cup {[Configured EXCEPT !.phase = "None"]}

\* An algorithm on one of the networks, unit conductances, its boundary
\* conditions set, nothing assembled yet.
InitRun ==
    /\ \E net \in RunNetworks :
          /\ Np = net.Np /\ conns = net.conns
          /\ g = [t \in DOMAIN net.conns |-> Rat(1, 1)]
          /\ \E st \in RunStores(net.Np) : bc_value = st.value /\ bc_rate = st.rate
    /\ settings \in SettingsArgs
    /\ A = NoneM /\ b = NoneM /\ pure_A = NoneM /\ pure_b = NoneM
    /\ cache = TRUE
    /\ asm = NotAssembled
    /\ solution = NoneM /\ initial_guess = NoneM
    /\ ran = NotRun
    /\ last = NoCall

NextRun == run \/ rate \/ reset \/ set_conductance \/ Return

SpecRun == InitRun /\ [][NextRun]_vars

NextAsm == get_A \/ get_b \/ update_A_and_b

SpecAsm == InitAsm /\ [][NextAsm]_vars

\* The conductances of a phase with or without a NaN: all 1, or the first NaN
HealthGLists(n) ==
    {[t \in 1 .. n |-> Rat(1, 1)],
     [t \in 1 .. n |-> IF t = 1 THEN NaN ELSE Rat(1, 1)]}

\* The stores of the health checks: no BC; the value 0 on pore 0; the value
\* 0 on pore 0 and the rate 5 on pore 2.
HealthStores ==
    {[value |-> [p \in 0 .. 2 |-> NaN], rate |-> [p \in 0 .. 2 |-> NaN]],
     [value |-> [p \in 0 .. 2 |-> IF p = 0 THEN Zero ELSE NaN],
      rate |-> [p \in 0 .. 2 |-> NaN]],
     [value |-> [p \in 0 .. 2 |-> IF p = 0 THEN Zero ELSE NaN],
      rate |-> [p \in 0 .. 2 |-> IF p = 2 THEN Rat(5, 1) ELSE NaN]]}

\* An algorithm on the path 0-1-2 or on a throat and a pore on its own, the
\* conductance of the phase with or without a NaN, nothing assembled yet.
InitHealth ==
    /\ Np = 3
    /\ conns \in {<< <<0, 1>>, <<1, 2>> >>, << <<0, 1>> >>}
    /\ g \in HealthGLists(Len(conns))
    /\ \E st \in HealthStores : bc_value = st.value /\ bc_rate = st.rate
    /\ settings = Configured
    /\ A = NoneM /\ b = NoneM /\ pure_A = NoneM /\ pure_b = NoneM
    /\ cache = TRUE
    /\ asm = NotAssembled
    /\ solution = NoneM /\ initial_guess = NoneM
    /\ ran = NotRun
    /\ last = NoCall

NextHealth == validate_data_health \/ Return

SpecHealth == InitHealth /\ [][NextHealth]_vars

NextConns == conns_to_am \/ Return

SpecConns == Init /\ [][NextConns]_vars

NextProps == set_variable_props \/ Return

SpecProps == Init /\ [][NextProps]_vars

Next == set_value_BC \/ set_rate_BC \/ remove_BC \/ reset \/ Return

Spec == Init /\ [][Next]_vars


\* ================================================================= claims
\* The boundary-condition store (specification Spec).

IsSetCall == last.op \in {"set_value_BC", "set_rate_BC"}

\* The kind the last set call targets, and the arrays of that kind and of
\* the opposite kind, before and after the call.
OwnNow == IF last.op = "set_value_BC" THEN bc_value ELSE bc_rate
OtherNow == IF last.op = "set_value_BC" THEN bc_rate ELSE bc_value
OwnPre == IF last.op = "set_value_BC" THEN last.pre_value ELSE last.pre_rate
OtherPre == IF last.op = "set_value_BC" THEN last.pre_rate ELSE last.pre_value

\* The entry of the value argument supplied for pore p (p among last.pores).
SuppliedFor(p) ==
    IF Size(last.values) = 1 THEN last.values.v[1]
    ELSE last.values.v[CHOOSE k \in DOMAIN last.pores :
                           /\ last.pores[k] = p
                           /\ \A j \in DOMAIN last.pores : last.pores[j] = p => j <= k]

\* C1: in every state reachable from construction by set_value_BC,
\* set_rate_BC, remove_BC and reset calls, no pore has both a finite
\* 'pore.bc_value' and a finite 'pore.bc_rate'; right after construction
\* both are NaN for every pore.
C1_AtMostOneKind ==
    /\ \A p \in Pores : ~(IsFinite(bc_value[p]) /\ IsFinite(bc_rate[p]))
    /\ last.op = "__init__" => (bc_value = AllNaN /\ bc_rate = AllNaN)

\* A rate call that met pores holding a value BC, skipped them and wrote the
\* others: both kinds are present in the store.
C1_Witness ==
    /\ last.op = "set_rate_BC" /\ last.raised = "no" /\ last.skipped # << >>
    /\ \E p \in Pores : IsFinite(bc_rate[p]) /\ ~IsFinite(last.pre_rate[p])
    /\ \E q \in Pores : IsFinite(bc_value[q])

\* C2: if pore p holds a BC of one kind and the setter of the other kind is
\* called in merge mode on pores containing p (with arguments that pass the
\* argument checks), then after the call p's BC is unchanged, p has no BC of
\* the other kind, and p is among the skipped pores the warning lists.
C2_MergeKeepsOtherKind ==
    (IsSetCall /\ last.mode = "merge" /\ last.raised # "args")
        => \A p \in Range(last.pores) :
              IsFinite(OtherPre[p])
                  => /\ OtherNow[p] = OtherPre[p]
                     /\ OwnNow[p] = NaN
                     /\ p \in Range(last.skipped)

\* A merge-mode rate call on a pore with a value BC and on a free pore.
C2_Witness ==
    /\ last.op = "set_rate_BC" /\ last.mode = "merge" /\ last.raised = "no"
    /\ \E p \in Range(last.pores) : IsFinite(last.pre_value[p])
    /\ \E q \in Range(last.pores) : IsFinite(bc_rate[q])

\* C3: after an overwrite-mode set call of kind K on pores P with scalar v,
\* kind K is held exactly by the pores of P that do not carry the opposite
\* kind, each with value v (every other entry of K is NaN), and the
\* opposite kind's array is unchanged.
C3_OverwriteScalar ==
    (IsSetCall /\ last.mode = "overwrite" /\ IsScalar(last.values) /\ IsNone(last.total))
        => /\ last.raised = "no"
           /\ OwnNow = [p \in Pores |->
                          IF p \in Range(last.pores) /\ ~IsFinite(OtherPre[p])
                          THEN last.values.v[1] ELSE NaN]
           /\ OtherNow = OtherPre

\* An overwrite that cleared a BC outside P, skipped a pore of P and wrote one.
C3_Witness ==
    /\ IsSetCall /\ last.mode = "overwrite" /\ IsScalar(last.values) /\ IsNone(last.total)
    /\ \E q \in Pores \ Range(last.pores) : IsFinite(OwnPre[q]) /\ ~IsFinite(OwnNow[q])
    /\ \E p \in Range(last.pores) : IsFinite(OtherPre[p])
    /\ \E p \in Range(last.pores) : IsFinite(OwnNow[p])

\* C4: whenever set_value_BC or set_rate_BC raises, 'pore.bc_value' and
\* 'pore.bc_rate' are exactly what they were before the call.
C4_RaiseLeavesStore ==
    (IsSetCall /\ last.raised # "no")
        => (bc_value = last.pre_value /\ bc_rate = last.pre_rate)

\* C5: a merge-mode set call in which some target pores carry the opposite
\* kind never raises, and every other target pore ends up holding the value
\* supplied for it (scalar or one array entry per target pore).
C5_MergeConflictNeverRaises ==
    (/\ IsSetCall /\ last.mode = "merge" /\ last.raised # "args" /\ IsNone(last.total)
     /\ \E p \in Range(last.pores) : IsFinite(OtherPre[p]))
        => /\ last.raised = "no"
           /\ \A p \in Range(last.pores) :
                 ~IsFinite(OtherPre[p]) => OwnNow[p] = SuppliedFor(p)

\* C6: set_rate_BC(pores, total_rate=R) stores R / n on every target pore it
\* writes, n being the number of pores given in the call (the other entries
\* are as the mode leaves them), and it raises without changing the store
\* when rates is supplied as well.
C6_TotalRate ==
    /\ (last.op = "set_rate_BC" /\ IsScalar(last.total) /\ IsNone(last.values)
        /\ last.raised = "no")
          => \A p \in Pores :
                bc_rate[p] =
                    IF p \in Range(last.pores) /\ ~IsFinite(last.pre_value[p])
                    THEN Rat(last.total.v[1][1], last.total.v[1][2] * Len(last.pores))
                    ELSE IF last.mode = "overwrite" THEN NaN ELSE last.pre_rate[p]
    /\ (last.op = "set_rate_BC" /\ ~IsNone(last.total) /\ ~IsNone(last.values))
          => /\ last.raised # "no"
             /\ bc_value = last.pre_value /\ bc_rate = last.pre_rate

\* A total rate divided over two given pores of which only one is written.
C6_Witness ==
    /\ last.op = "set_rate_BC" /\ IsScalar(last.total) /\ IsNone(last.values)
    /\ last.raised = "no" /\ Len(last.pores) = 2
    /\ \E p \in Range(last.pores) : IsFinite(last.pre_value[p])
    /\ \E p \in Range(last.pores) : bc_rate[p] = Rat(last.total.v[1][1], 2)

\* C7: remove_BC(pores, bctype) sets to NaN exactly the entries of the named
\* kind(s) ('all': both) on the given pores (all pores when pores is None),
\* leaves every other entry of either kind unchanged, and never raises.
C7_RemoveBC ==
    last.op = "remove_BC"
        => LET named(kind) == kind \in Range(last.bctype) \/ "all" \in Range(last.bctype)
               given == IF last.allpores THEN Pores ELSE Range(last.pores)
           IN  /\ last.raised = "no"
               /\ \A p \in Pores :
                     /\ bc_value[p] = IF named("value") /\ p \in given
                                      THEN NaN ELSE last.pre_value[p]
                     /\ bc_rate[p] = IF named("rate") /\ p \in given
                                     THEN NaN ELSE last.pre_rate[p]

\* remove_BC('all') on a pore without any BC while another pore keeps its BC.
C7_Witness ==
    /\ last.op = "remove_BC" /\ ~last.allpores /\ "all" \in Range(last.bctype)
    /\ \E p \in Range(last.pores) :
          ~IsFinite(last.pre_value[p]) /\ ~IsFinite(last.pre_rate[p])
    /\ \E q \in Pores : IsFinite(bc_value[q]) \/ IsFinite(bc_rate[q])


\* The assembly of the linear system (specification SpecAsm).

\* The pores carrying a value BC
ValuePores == {p \in Pores : IsFinite(bc_value[p])}

\* The throats touching pore i
ThroatsAt(i) == {t \in Throats : conns[t][1] = i \/ conns[t][2] = i}

\* The matrix _build_A produced, before any BC is applied to it: A itself
\* after a bare _build_A, the matrix _apply_BCs started from otherwise.
BeforeBCs == IF asm.stage = "built" THEN A[1] ELSE asm.A0[1]

\* C8: the matrix produced by _build_A before any BC is applied is the
\* weighted graph Laplacian of the network: for every throat (i,j) with
\* conductance g the entries (i,j) and (j,i) are -g, pores not joined by a
\* throat have a zero entry, diagonal entry i is the sum of the conductances
\* of the throats touching i, every row sums to zero, the matrix is symmetric.
C8_Laplacian ==
    asm.stage \in {"built", "applied"}
        => LET L == BeforeBCs
           IN  /\ \A t \in Throats :
                     /\ L[conns[t][1]][conns[t][2]] = RNeg(g[t])
                     /\ L[conns[t][2]][conns[t][1]] = RNeg(g[t])
               /\ \A i, j \in Pores :
                     (i # j /\ ~\E t \in Throats : {conns[t][1], conns[t][2]} = {i, j})
                         => L[i][j] = Zero
               /\ \A i \in Pores : L[i][i] = SumOver(g, ThroatsAt(i))
               /\ \A i \in Pores : SumOver(L[i], Pores) = Zero
               /\ \A i, j \in Pores : L[i][j] = L[j][i]

\* A bare _build_A on a network with a pore touched by two throats of
\* different conductance.
C8_Witness ==
    /\ asm.stage = "built"
    /\ \E i \in Pores : \E t, u \in ThroatsAt(i) : g[t] # g[u]

\* C9: after _apply_BCs, A equals its transpose for every combination of
\* value BCs and rate BCs (none included).
C9_Symmetric ==
    asm.stage = "applied" => \A i, j \in Pores : A[1][i][j] = A[1][j][i]

\* BCs applied with a value-BC pore joined by a throat to a pore without
\* value BC, and a rate BC somewhere.
C9_Witness ==
    /\ asm.stage = "applied"
    /\ \E t \in Throats :
          Cardinality({conns[t][1], conns[t][2]} \cap ValuePores) = 1
    /\ \E p \in Pores : IsFinite(bc_rate[p])

\* C10 as stated: after _apply_BCs every off-diagonal entry (i,j) outside
\* (value-BC pores) x (value-BC pores) is what it was before BC application.
C10_ComplementUnchanged ==
    asm.stage = "applied"
        => \A i, j \in Pores :
              (i # j /\ ~(i \in ValuePores /\ j \in ValuePores))
                  => A[1][i][j] = asm.A0[1][i][j]

\* C10 amended: after _apply_BCs every entry (i,j) with neither i nor j a
\* value-BC pore is what it was before BC application, the diagonal
\* included; the off-diagonal entries joining a value-BC pore to any other
\* pore are zero.
C10_NonBCBlockUnchanged ==
    asm.stage = "applied"
        => /\ \A i, j \in Pores \ ValuePores : A[1][i][j] = asm.A0[1][i][j]
           /\ \A p \in ValuePores : \A i \in Pores \ {p} :
                 A[1][i][p] = Zero /\ A[1][p][i] = Zero

\* BCs applied on a network where a pore without value BC has a throat to
\* another such pore and a throat to a value-BC pore.
C10_Witness ==
    /\ asm.stage = "applied"
    /\ \E t, u \in Throats :
          /\ {conns[t][1], conns[t][2]} \cap ValuePores = {}
          /\ Cardinality({conns[u][1], conns[u][2]} \cap ValuePores) = 1
          /\ {conns[t][1], conns[t][2]} \cap {conns[u][1], conns[u][2]} # {}

\* The pores carrying a rate BC
RatePores == {p \in Pores : IsFinite(bc_rate[p])}

\* Candidate solution vectors
XNumbers == {Rat(1, 1), Rat(2, 1)}

\* (M x)[p]
RowTimes(M, x, p) == SumOver([j \in Pores |-> RMul(M[p][j], x[j])], Pores)

\* C11: after _apply_BCs, for every pore p carrying a value BC v:
\* A[p,p] = f, every other entry of row p and of column p is zero, and
\* b[p] = v*f, f being the mean of the diagonal of A before the BCs were
\* applied; so every x with (A x)[p] = b[p] has x[p] = v when f is not zero.
C11_ValueRows ==
    asm.stage = "applied"
        => LET f == DiagMean(asm.A0[1])
           IN  \A p \in ValuePores :
                  /\ A[1][p][p] = f
                  /\ \A i \in Pores \ {p} : A[1][p][i] = Zero /\ A[1][i][p] = Zero
                  /\ b[1][p] = RMul(bc_value[p], f)
                  /\ f # Zero =>
                        \A x \in [Pores -> XNumbers] :
                            RowTimes(A[1], x, p) = b[1][p] => x[p] = bc_value[p]

\* BCs applied with a value-BC pore that has a throat, on a network whose
\* diagonal mean is neither 0 nor 1.
C11_Witness ==
    /\ asm.stage = "applied"
    /\ \E p \in ValuePores : ThroatsAt(p) # {}
    /\ DiagMean(asm.A0[1]) \notin {Zero, Rat(1, 1)}

\* The known values seen from pore p: the sum of A[p,j]*value[j] over the
\* value-BC pores j, A as it was before the BCs were applied.
KnownAt(p) ==
    SumOver([j \in Pores |-> RMul(asm.A0[1][p][j], bc_value[j])], ValuePores)

\* C12 as stated: after _apply_BCs, b[p] equals the stored rate for every
\* pore p carrying a finite rate BC, whatever value BCs other pores carry.
C12_RateOnRHS ==
    asm.stage = "applied" => \A p \in RatePores : b[1][p] = bc_rate[p]

\* C12 amended: after _apply_BCs, b[p] of a rate-BC pore p is the stored
\* rate minus the sum of A[p,j]*value[j] over the value-BC pores j (A before
\* the BCs); it is the stored rate when no throat joins p to a value-BC pore.
C12_RateMinusKnown ==
    asm.stage = "applied"
        => \A p \in RatePores :
              /\ b[1][p] = RSub(bc_rate[p], KnownAt(p))
              /\ (\A t \in ThroatsAt(p) :
                      {conns[t][1], conns[t][2]} \cap ValuePores = {})
                    => b[1][p] = bc_rate[p]

\* BCs applied with a rate-BC pore joined by a throat to a value-BC pore,
\* and another rate-BC pore that is not.
C12_Witness ==
    /\ asm.stage = "applied"
    /\ \E p \in RatePores : \E t \in ThroatsAt(p) :
          {conns[t][1], conns[t][2]} \cap ValuePores # {}
    /\ \E p \in RatePores : \A t \in ThroatsAt(p) :
          {conns[t][1], conns[t][2]} \cap ValuePores = {}

\* The run, the cache and the rates (specification SpecRun).

\* C13: reset(bcs, results) always sets the assembled A and b and their
\* cached BC-free copies to None; it clears every value and rate BC if bcs
\* is True and leaves the BC store as it was otherwise (the default); it
\* removes the stored solution if results is True and leaves it otherwise.
C13_Reset ==
    last.op = "reset"
        => /\ A = NoneM /\ b = NoneM /\ pure_A = NoneM /\ pure_b = NoneM
           /\ IF last.bcs
              THEN bc_value = AllNaN /\ bc_rate = AllNaN
              ELSE bc_value = last.pre_value /\ bc_rate = last.pre_rate
           /\ IF last.results THEN solution = NoneM ELSE solution = last.pre[3]

\* reset(bcs=False, results=False) after a run, with BCs set: the assembled
\* system goes, the BCs and the solution stay.
C13_Witness ==
    /\ last.op = "reset" /\ ~last.bcs /\ ~last.results
    /\ last.pre[1] # NoneM /\ last.pre[4] # NoneM
    /\ solution # NoneM
    /\ \E p \in Pores : IsFinite(bc_value[p])
    /\ \E p \in Pores : IsFinite(bc_rate[p])

\* The Laplacian of the network with the conductance the phase has now
FreshA == <<Laplacian(Dense(AdjacencyCOO(conns, g)))>>

\* C14: with caching enabled, a run that finds a cached matrix assembles A
\* from it and keeps it, whatever the conductance of the phase has become;
\* a run that finds none (the first one, or the first after reset())
\* builds it from the conductance current at that moment.
C14_CachedMatrix ==
    (last.op = "run" /\ last.raised = "no" /\ cache)
        => /\ asm.A0 = pure_A
           /\ IF last.pre[4] # NoneM THEN pure_A = last.pre[4] ELSE pure_A = FreshA

\* A run after the conductance was changed: the matrix it assembled is not
\* the Laplacian of the current conductance.
C14_Witness ==
    /\ last.op = "run" /\ last.raised = "no" /\ cache
    /\ last.pre[4] # NoneM
    /\ pure_A # FreshA

\* Some setting the run needs does not name anything.
Unconfigured ==
    ~Names(settings.quantity) \/ ~Names(settings.conductance) \/ ~Names(settings.phase)

\* C15: run fails with a configuration error, before A, b or the solution
\* are touched and before the solver is called, whenever quantity,
\* conductance or phase has not been configured (None, or the value ''
\* the settings class gives quantity and conductance by default).
C15_ConfigurationError ==
    (last.op = "run" /\ Unconfigured)
        => /\ last.raised = "settings"
           /\ ~last.solved
           /\ A = last.pre[1] /\ b = last.pre[2] /\ solution = last.pre[3]

\* C16: when the solver returns a non-success exit code, run does not
\* complete as it does after a successful solve: it raises (run returns
\* nothing and records no status).
C16_ExitCodeSurfaced ==
    (last.op = "run" /\ last.solved /\ last.exit_code # 0) => last.raised # "no"

\* C17: a run that follows a completed run, with the same solver and x0 and
\* no change of BCs, conductance or settings in between, leaves the
\* solution the first run left.
C17_Idempotent ==
    (/\ last.op = "run" /\ last.raised = "no"
     /\ last.pre_ran.solver = last.solver
     /\ last.pre_ran.x0 = last.x0)
        => solution = last.pre_ran.x

\* A second run with the solver that stops after one sweep, on a system
\* whose solution is not zero.
C17_Witness ==
    /\ last.op = "run" /\ last.raised = "no"
    /\ last.solver = "stalled"
    /\ last.pre_ran.solver = "stalled" /\ last.pre_ran.x0 = last.x0
    /\ \E p \in Pores : solution[1][p] # Zero
    /\ ExactSolution(A[1], b[1]) # solution

\* x < y
RLess(x, y) == x[1] * y[2] < y[1] * x[2]

\* rate has just been asked about the pores ps, as a group, right after a
\* run with the exact solver.
AskedAfterExactRun(ps) ==
    /\ last.op = "rate" /\ last.pores = ps /\ last.throats = << >>
    /\ last.mode = "group"
    /\ ran.solver = "exact"

\* The path 0-1-2, unit conductances, rate 5 at pore 0, value 0 at pore 2
PathScenario ==
    /\ Np = 3 /\ conns = << <<0, 1>>, <<1, 2>> >>
    /\ g = <<Rat(1, 1), Rat(1, 1)>>
    /\ bc_rate = (0 :> Rat(5, 1) @@ 1 :> NaN @@ 2 :> NaN)
    /\ bc_value = (0 :> NaN @@ 1 :> NaN @@ 2 :> Zero)

\* One rate-BC pore and at least one value-BC pore on a connected network
OneInlet ==
    /\ Cluster(conns, {0}) = Pores
    /\ Cardinality(RatePores) = 1
    /\ ValuePores # {}

\* C18 as stated: on a connected network with exactly one rate-BC pore, of
\* rate R, and value BCs on the other BC pores, after a run with an exact
\* solver rate(pores = all value-BC pores, mode='group') is -R; on the path
\* 0-1-2 with unit conductances, rate 5 at pore 0 and value 0 at pore 2,
\* x[0] > x[1] > x[2] = 0 and rate(pores=[2], mode='group') is -5.
C18_ConservationAnyCache ==
    /\ (AskedAfterExactRun(SortedSeq(ValuePores)) /\ OneInlet)
          => /\ last.raised = "no"
             /\ \A p \in RatePores : last.returned = <<RNeg(bc_rate[p])>>
    /\ (AskedAfterExactRun(<<2>>) /\ PathScenario)
          => /\ RLess(solution[1][1], solution[1][0])
             /\ RLess(solution[1][2], solution[1][1])
             /\ solution[1][2] = Zero
             /\ last.returned = <<Rat(-5, 1)>>

\* C18 amended: the same, for a run whose matrix was assembled from the
\* conductance the phase has when the rate is asked (not from a matrix
\* cached before the conductance was changed).
C18_Conservation ==
    /\ (AskedAfterExactRun(SortedSeq(ValuePores)) /\ OneInlet /\ pure_A = FreshA)
          => /\ last.raised = "no"
             /\ \A p \in RatePores : last.returned = <<RNeg(bc_rate[p])>>
    /\ (AskedAfterExactRun(<<2>>) /\ PathScenario /\ pure_A = FreshA)
          => /\ RLess(solution[1][1], solution[1][0])
             /\ RLess(solution[1][2], solution[1][1])
             /\ solution[1][2] = Zero
             /\ last.returned = <<Rat(-5, 1)>>

\* The path scenario, and the rate asked for its value-BC pore
C18_PathWitness == AskedAfterExactRun(<<2>>) /\ PathScenario /\ pure_A = FreshA

\* A rate pore with a throat to a pore carrying the value 10, and another
\* value-BC pore: the rate asked for the two value-BC pores
C18_Witness ==
    /\ AskedAfterExactRun(SortedSeq(ValuePores))
    /\ OneInlet /\ pure_A = FreshA
    /\ Cardinality(ValuePores) = 2
    /\ \E t \in Throats : \E p \in RatePores :
          /\ p \in {conns[t][1], conns[t][2]}
          /\ \E q \in {conns[t][1], conns[t][2]} : bc_value[q] = Rat(10, 1)

\* C19: rate raises when pores and throats are both non-empty and when
\* they are both empty, and returns no value in either case.
C19_PoresOrThroats ==
    (/\ last.op = "rate"
     /\ \/ (last.pores # << >> /\ last.throats # << >>)
        \/ (last.pores = << >> /\ last.throats = << >>))
        => last.raised = "args" /\ last.returned = << >>

\* rate called with neither pores nor throats after a run has left a
\* solution
C19_Witness ==
    /\ last.op = "rate" /\ last.pores = << >> /\ last.throats = << >>
    /\ solution # NoneM /\ ~Unconfigured

\* |g*(x_i - x_j)| for throat t
ThroatMagnitude(t) ==
    RAbs(RMul(g[t], RSub(solution[1][conns[t][1]], solution[1][conns[t][2]])))

\* C20: rate(throats=T), a solution being stored, returns for each
\* requested throat joining i and j with conductance g the magnitude
\* |g*(x_i - x_j)|, one value per throat in mode 'single' and their sum in
\* mode 'group', on every network, one with a single throat included.
C20_ThroatRates ==
    (/\ last.op = "rate" /\ last.pores = << >> /\ last.throats # << >>
     /\ solution # NoneM /\ ~Unconfigured)
        => /\ last.raised = "no"
           /\ last.returned =
                 IF last.mode = "group"
                 THEN <<SumOver([k \in DOMAIN last.throats |->
                                    ThroatMagnitude(last.throats[k])],
                                DOMAIN last.throats)>>
                 ELSE [k \in DOMAIN last.throats |-> ThroatMagnitude(last.throats[k])]


\* The checks before the solve (specification SpecRun).

\* The pores in the connected component of pore p
Component(p) == Cluster(conns, {p})

\* C21: for a run whose settings pass validation, the topology check fails
\* exactly when the network has more than one connected component and some
\* component holds no pore carrying a value or rate BC; a run that fails it
\* raises without having called the solver and leaves the solution as it was.
C21_TopologyCheck ==
    (last.op = "run" /\ last.raised # "settings")
        => /\ (last.raised = "topology")
                <=> ~(\/ \A p \in Pores : Component(p) = Pores
                      \/ \A p \in Pores :
                            \E q \in Component(p) :
                                IsFinite(bc_value[q]) \/ IsFinite(bc_rate[q]))
           /\ last.raised = "topology"
                => (~last.solved /\ solution = last.pre[3])

\* A run completed on a network of two components, each holding a BC pore.
C21_Witness ==
    /\ last.op = "run" /\ last.raised = "no" /\ last.solved
    /\ \E p \in Pores : Component(p) # Pores

\* The conductance named by the settings is among the iterative properties
VariableConductance == settings.conductance \in GetIterativeProps(settings)

SuppliedProps == {ParseProp(last.values.v[k], "pore") : k \in DOMAIN last.values.v}

\* C27: after a merge-mode set_variable_props call that does not raise,
\* settings variable_props holds every property supplied and every property
\* it held before, and (as after any sequence of merge calls from
\* construction) none twice; after an overwrite-mode call it holds exactly
\* the properties supplied in that call.
C27_VariableProps ==
    (last.op = "set_variable_props" /\ last.raised = "no")
        => LET props == settings.variable_props
           IN  /\ last.mode = "merge"
                    => /\ SuppliedProps \cup Range(last.pre) \subseteq Range(props)
                       /\ (\A i, j \in DOMAIN last.pre : i # j => last.pre[i] # last.pre[j])
                            => \A i, j \in DOMAIN props : i # j => props[i] # props[j]
               /\ last.mode = "overwrite" => Range(props) = SuppliedProps


\* The steps of a run (specification SpecRun).

\* C24: a run that completes has taken these steps in this order: settings
\* validation, data-health validation, writing x0 (the zero vector when
\* none is given) as the solution, assembly with the BCs applied, a second
\* data-health validation, one solver call, storing its result, one more
\* assembly; the solution is the solver's result on the assembled A and b
\* from x0, and when the run returns A and b are not None and carry the BCs.
C24_RunSteps ==
    (last.op = "run" /\ last.raised = "no")
        => /\ last.steps = <<"_validate_settings", "_validate_data_health", "x0",
                             "_update_A_and_b", "_validate_data_health", "solve",
                             "x", "_update_A_and_b">>
           /\ initial_guess = IF last.x0 = NoneM THEN <<ZeroVector>> ELSE last.x0
           /\ A # NoneM /\ b # NoneM
           /\ A = <<ApplyBCs_A(pure_A[1], bc_value)>>
           /\ b = <<ApplyBCs_b(pure_A[1], ZeroVector, bc_value, bc_rate)>>
           /\ solution = <<Solve(last.solver, A[1], b[1], initial_guess[1]).x>>

\* A completed run on a store holding a value BC and a rate BC, from a
\* given x0.
C24_Witness ==
    /\ last.op = "run" /\ last.raised = "no" /\ last.x0 # NoneM
    /\ \E p \in Pores : IsFinite(bc_value[p])
    /\ \E p \in Pores : IsFinite(bc_rate[p])


\* The data-health check and its search for NaNs (specification SpecHealth).

\* The network is one component, or every component holds a BC pore
Anchored ==
    \/ \A p \in Pores : Component(p) = Pores
    \/ \A p \in Pores : Component(p) \cap BCPores(bc_value, bc_rate) # {}

\* A or b, as _validate_data_health read them, holds an entry that is not
\* finite
NonFinite ==
    /\ A # NoneM /\ b # NoneM
    /\ \/ \E i, j \in Pores : ~IsFinite(A[1][i][j])
       \/ \E i \in Pores : ~IsFinite(b[1][i])

\* C22: _validate_data_health returns normally only when the topology check
\* passes and every entry of A and of b is finite, and then it has asked
\* neither for the geometry health nor for a dependency graph; when an
\* entry of A or b is not finite it raises, whatever the project answers.
C22_DataHealth ==
    last.op = "_validate_data_health"
        => /\ last.raised = "no"
                => /\ Anchored /\ A # NoneM /\ b # NoneM /\ ~NonFinite
                   /\ "_validate_geometry_health" \notin Range(last.steps)
                   /\ "dependency_graph" \notin Range(last.steps)
           /\ NonFinite => last.raised # "no"

\* The check raised on a NaN in A though the project has neither geometry
\* nor physics objects, its geometry health is clean and its phase reports
\* a NaN.
C22_Witness ==
    /\ last.op = "_validate_data_health" /\ NonFinite /\ last.raised = "generic"
    /\ last.project.geometries = << >> /\ last.project.physics = << >>
    /\ last.project.phase.nans # {}

\* The objects of turn k of the loop, the nodes and the edges of their merged
\* graph, and the base names they report as having NaNs
TurnObjects(k) ==
    {last.project.phase, last.project.geometries[k], last.project.physics[k]}
TurnNodes(k) == UNION {o.graph.nodes : o \in TurnObjects(k)}
TurnEdges(k) == UNION {o.graph.edges : o \in TurnObjects(k)}
TurnFlagged(k) == {BaseProp(key) : key \in UNION {o.nans : o \in TurnObjects(k)}}

\* The flagged nodes of turn k without an edge from another flagged node
TurnRoots(k) ==
    {n \in TurnFlagged(k) \cap TurnNodes(k) :
        ~\E m \in (TurnFlagged(k) \cap TurnNodes(k)) \ {n} : <<m, n>> \in TurnEdges(k)}

\* C25: when the search reports root causes, they are exactly the flagged
\* properties (by base name) present in the merged dependency graph of the
\* reported objects that have no flagged ancestor in the subgraph induced
\* by the flagged properties; a flagged property with a flagged ancestor
\* there is not reported.
C25_RootProps ==
    (last.op = "_validate_data_health" /\ last.raised = "roots")
        => last.props = TurnRoots(last.pair)

\* Roots reported while another flagged property of the graph, computed
\* from a flagged one, is not.
C25_Witness ==
    /\ last.op = "_validate_data_health" /\ last.raised = "roots"
    /\ (TurnFlagged(last.pair) \cap TurnNodes(last.pair)) \ last.props # {}

\* The turns of the loop: the pairs of zip(geometries, physics)
Turns ==
    1 .. (IF Len(last.project.geometries) < Len(last.project.physics)
          THEN Len(last.project.geometries) ELSE Len(last.project.physics))

\* C26: when an entry of A or b is not finite (the topology check passed),
\* exactly one of four errors is raised: the geometry-health error if a
\* geometry health check failed; otherwise the root properties of the first
\* geometry/physics pair that yields any; otherwise, no pair yielding a
\* root, the flagged properties absent from the dependency graphs as
\* unaccounted, if the objects of the pairs flagged any; otherwise (no
\* property identified at all) the message about disabling the cache.
C26_Priority ==
    (last.op = "_validate_data_health" /\ NonFinite /\ last.raised # "topology")
        => LET failed == \E k \in DOMAIN last.project.geometry_health :
                            last.project.geometry_health[k] # {}
               yielding == {k \in Turns : TurnRoots(k) # {}}
               absent == UNION {TurnFlagged(k) \ TurnNodes(k) : k \in Turns}
           IN  /\ last.raised \in {"geometry", "roots", "unaccounted", "generic"}
               /\ last.raised = "geometry" <=> failed
               /\ last.raised = "roots" <=> (~failed /\ yielding # {})
               /\ last.raised = "roots"
                    => /\ \A k \in yielding : last.pair <= k
                       /\ last.pair \in yielding
                       /\ last.props = TurnRoots(last.pair)
               /\ last.raised = "unaccounted"
                    <=> (~failed /\ yielding = {} /\ absent # {})
               /\ last.raised = "unaccounted" => last.props = absent
               /\ last.raised = "generic"
                    <=> (~failed /\ \A k \in Turns : TurnFlagged(k) = {})

\* The roots come from the second pair, the first pair having flagged only
\* a property absent from its graph.
C26_Witness ==
    /\ last.op = "_validate_data_health" /\ last.raised = "roots" /\ last.pair = 2
    /\ TurnFlagged(1) # {}


\* The adjacency matrix of a list of connections (specification SpecConns).

\* The pairs of sites joined by a connection of the list without a negative
\* end, the lower site first
JoinedPairs ==
    {pr \in Sites \X Sites :
        /\ 0 <= pr[1] /\ pr[1] < pr[2]
        /\ \E k \in DOMAIN last.links :
              last.links[k] = pr \/ last.links[k] = <<pr[2], pr[1]>>}

\* C28: the adjacency matrix conns_to_am returns with its default options
\* is strictly upper triangular, has no entry for a connection with a
\* negative end or from a site to itself, and holds for each joined pair of
\* sites exactly one entry, of weight 1, however often and in whichever
\* orientation the pair is listed.
C28_AdjacencyMatrix ==
    (last.op = "conns_to_am" /\ last.raised = "no")
        => /\ \A e \in last.am : 0 <= e.row /\ e.row < e.col
           /\ {<<e.row, e.col>> : e \in last.am} = JoinedPairs
           /\ \A e, f \in last.am : (e.row = f.row /\ e.col = f.col) => e = f
           /\ \A e \in last.am : e.data = 1


\* Repeated assemblies (specification SpecRun).

\* The Laplacians of the network for the conductance arrays the phase takes
PureLaplacians ==
    {<<Laplacian(Dense(AdjacencyCOO(conns, w)))>> : w \in PhaseGLists(Len(conns))}

\* C29: the matrix cached without BCs is at all times a pure Laplacian of
\* the network (the BCs are applied to a copy), after a completed run A and
\* b are that matrix and the zero vector with the BCs applied once, and a
\* run repeated with BCs and conductance unchanged leaves the same A, b and
\* cached matrix as the run before it.
C29_NoAccumulation ==
    /\ pure_A # NoneM => pure_A \in PureLaplacians
    /\ (last.op = "run" /\ last.raised = "no")
          => /\ A = <<ApplyBCs_A(pure_A[1], bc_value)>>
             /\ b = <<ApplyBCs_b(pure_A[1], ZeroVector, bc_value, bc_rate)>>
             /\ last.pre_ran.solver # "none"
                  => (A = last.pre[1] /\ b = last.pre[2] /\ pure_A = last.pre[4])

\* A run completed right after a completed run, nothing changed between
\* them, with a value BC next to a pore without one.
C29_Witness ==
    /\ last.op = "run" /\ last.raised = "no" /\ last.pre_ran.solver # "none"
    /\ \E t \in DOMAIN conns :
          /\ IsFinite(bc_value[conns[t][1]])
          /\ ~IsFinite(bc_value[conns[t][2]])


\* The assembled system and the constraints (specification SpecAsm).

\* The vectors tried as solutions: every vector of whole numbers from 1 to
\* 3, and the exact solution of A x = b when there is one
TriedVectors ==
    [Pores -> {Rat(1, 1), Rat(2, 1), Rat(3, 1)}]
    \cup (IF ExactSolution(A[1], b[1]) = << >> THEN {}
          ELSE {ExactSolution(A[1], b[1])[1]})

\* x solves the assembled system
SolvesSystem(x) == \A p \in Pores : RowTimes(A[1], x, p) = b[1][p]

\* x meets the constraints themselves, L being the Laplacian before the BCs
MeetsConstraints(x, L) ==
    /\ \A p \in ValuePores : x[p] = bc_value[p]
    /\ \A i \in Pores \ ValuePores :
          RowTimes(L, x, i) = IF IsFinite(bc_rate[i]) THEN bc_rate[i] ELSE Zero

\* C30: after _apply_BCs, L being the matrix before the BCs and its
\* diagonal mean f not zero, a vector x solves A x = b if and only if x[p]
\* is the BC value on every value-BC pore p and (L x)[i] is the rate BC of
\* i (0 without one) on every pore i without value BC.
C30_Elimination ==
    (asm.stage = "applied" /\ DiagMean(asm.A0[1]) # Zero)
        => \A x \in TriedVectors : SolvesSystem(x) <=> MeetsConstraints(x, asm.A0[1])

\* BCs applied, a value BC and a rate BC among them, and a tried vector that
\* is not constant solves the system.
C30_Witness ==
    /\ asm.stage = "applied" /\ DiagMean(asm.A0[1]) # Zero
    /\ ValuePores # {} /\ RatePores # {}
    /\ \E x \in TriedVectors :
          SolvesSystem(x) /\ \E p, q \in Pores : x[p] # x[q]

====
